---- MODULE Spec2Model ----
(***************************************************************************)
(* Facets of invenio-records-rest (invenio_records_rest/facets.py): the    *)
(* terms and range filter factories, the filter collector, the aggregation *)
(* selection and default_facets_factory, as a state machine.               *)
(*                                                                         *)
(* A Python str is a sequence of one-character strings, so that count,     *)
(* split, indexing and slicing are computed, not assumed.  A dict is a     *)
(* function on its keys; a dict whose order matters (the mappings of the   *)
(* facet configuration, the MultiDict) is a sequence of entries in         *)
(* insertion order.                                                        *)
(***************************************************************************)
EXTENDS Integers, Sequences, FiniteSets, TLC

\* ------------------------------------------------------------------ bounds
\* Longest range value handed to the range factory in SpecRange.
MaxStrLen == 5
\* Orchestrator calls made on one configuration in Spec.
MaxCalls == 2

\* ----------------------------------------------------------------- strings
None == <<>>                 \* None and "" are both falsy in `if date_math`
Sep == <<"-", "-">>
EmptyDict == [k \in {} |-> <<>>]

RECURSIVE PyCount(_)
\* str.count("--"): occurrences found scanning left to right, each match
\* consuming its two characters.
PyCount(s) ==
    IF Len(s) < 2 THEN 0
    ELSE IF s[1] = "-" /\ s[2] = "-" THEN 1 + PyCount(SubSeq(s, 3, Len(s)))
    ELSE PyCount(Tail(s))

RECURSIVE PySplitFrom(_, _)
\* str.split("--") continued: cur is the token read so far.
PySplitFrom(s, cur) ==
    IF Len(s) >= 2 /\ s[1] = "-" /\ s[2] = "-"
    THEN <<cur>> \o PySplitFrom(SubSeq(s, 3, Len(s)), <<>>)
    ELSE IF s = <<>> THEN <<cur>>
    ELSE PySplitFrom(Tail(s), Append(cur, s[1]))

PySplit(s) == PySplitFrom(s, <<>>)

\* ---------------------------------------------------------- terms_filter
\* terms_filter(field).inner(values)
TermsInner(field, values) ==
    [ok |-> TRUE, expr |-> [type |-> "terms", field |-> field, body |-> values]]

\* ---------------------------------------------------------- range_filter
IneqOpers ==
    << [strict |-> "gt", nonstrict |-> "gte"],
       [strict |-> "lt", nonstrict |-> "lte"] >>
StrictMarks == << ">", "<" >>

\* d[k] = v on a dict
DictSet(d, k, v) == (k :> v) @@ d

\* RangeEndStep with the strict marker left in the bound's value.
RangeEndStepKeepsMarker(range_args, range_end, strict, opers, date_math) ==
    IF range_end = <<>> THEN range_args
    ELSE LET dict_key == IF range_end[1] = strict
                         THEN opers.strict ELSE opers.nonstrict
             value == IF date_math # None
                      THEN range_end \o <<"|", "|">> \o date_math
                      ELSE range_end
         IN  DictSet(range_args, dict_key, value)

\* One iteration of the zip loop: range_args after one range end.
RangeEndStep(range_args, range_end, strict, opers, date_math) ==
    IF range_end = <<>> THEN range_args
    ELSE LET isStrict == range_end[1] = strict
             dict_key == IF isStrict THEN opers.strict ELSE opers.nonstrict
             stripped == IF isStrict THEN Tail(range_end) ELSE range_end
             value == IF date_math # None
                      THEN stripped \o <<"|", "|">> \o date_math
                      ELSE stripped
         IN  DictSet(range_args, dict_key, value)

RECURSIVE RangeArgs(_, _, _, _)
\* The zip loop from position k on: zip stops at its shortest argument.
RangeArgs(range_ends, date_maths, k, range_args) ==
    IF k > Len(range_ends) \/ k > 2 THEN range_args
    ELSE RangeArgs(range_ends, date_maths, k + 1,
                   RangeEndStep(range_args, range_ends[k], StrictMarks[k],
                                IneqOpers[k], date_maths[k]))

\* RangeInvalid without the test for the bare separator.
RangeInvalidBareAccepted(values) ==
    Len(values) # 1 \/ PyCount(values[1]) # 1

\* The guard of range_filter.inner: TRUE when the value list is rejected.
RangeInvalid(values) ==
    Len(values) # 1 \/ PyCount(values[1]) # 1 \/ values[1] = Sep

\* range_filter(field, start_date_math, end_date_math, **kwargs).inner(values)
RangeInner(field, start_date_math, end_date_math, kwargs, values) ==
    IF RangeInvalid(values)
    THEN [ok |-> FALSE,
          error |-> [field |-> field, message |-> "Invalid range format."]]
    ELSE LET range_ends == PySplit(values[1])
             range_args == RangeArgs(range_ends,
                                     <<start_date_math, end_date_math>>,
                                     1, EmptyDict)
             args == range_args @@ kwargs
         IN  [ok |-> TRUE,
              expr |-> [type |-> "range", field |-> field, body |-> args]]

\* A configured filter factory applied to the request's values.
FilterFactory(f, values) ==
    IF f.kind = "terms" THEN TermsInner(f.field, values)
    ELSE RangeInner(f.field, f.start_date_math, f.end_date_math, f.kwargs, values)

\* --------------------------------------------------------------- MultiDict
\* werkzeug's MultiDict: a dict from key to the list of its values; a new
\* key goes last, a known key's list grows in place.
MultiDictNew == <<>>

MultiDictAdd(md, key, v) ==
    IF \E k \in 1..Len(md) : md[k].key = key
    THEN [k \in 1..Len(md) |->
            IF md[k].key = key
            THEN [key |-> key, vals |-> Append(md[k].vals, v)]
            ELSE md[k]]
    ELSE Append(md, [key |-> key, vals |-> <<v>>])

\* MultiDictAddAll assigning urlkwargs[name] = v: the last value only.
MultiDictSetLast(md, key, vs) ==
    IF vs = <<>> THEN md
    ELSE MultiDictAdd(SelectSeq(md, LAMBDA e : e.key # key), key, vs[Len(vs)])

RECURSIVE MultiDictAddAll(_, _, _)
\* for v in values: urlkwargs.add(name, v)
MultiDictAddAll(md, key, vs) ==
    IF vs = <<>> THEN md
    ELSE MultiDictAddAll(MultiDictAdd(md, key, Head(vs)), key, Tail(vs))

\* request.values.getlist(name, type=text_type)
Getlist(vals, name) == IF name \in DOMAIN vals THEN vals[name] ELSE <<>>

\* ------------------------------------------------- facets selector (utils)
RECURSIVE SplitCommaFrom(_, _)
\* element.split(","): cur is the name read so far.
SplitCommaFrom(s, cur) ==
    IF s = <<>> THEN {cur}
    ELSE IF s[1] = "," THEN {cur} \cup SplitCommaFrom(Tail(s), <<>>)
    ELSE SplitCommaFrom(Tail(s), Append(cur, s[1]))

\* make_comma_list_a_list(request.args.getlist("facets")): every raw value
\* split on commas, the names collected.
MakeCommaListAList(raw) ==
    UNION { SplitCommaFrom(raw[k], <<>>) : k \in 1..Len(raw) }

\* ------------------------------------------------------------ aggregations
\* What a concrete aggregation definition holds.
ConcreteValue(name) == [agg |-> name, made |-> 0]

\* What a lazy producer returns when called during orchestrator call `call`.
Produce(name, call) == [agg |-> name, made |-> call]

\* ResolveAgg keeping the value a producer returned in the first call.
ResolveAggMemoized(agg, call) ==
    IF ~agg.callable
    THEN [value |-> ConcreteValue(agg.name), calls |-> 0]
    ELSE [value |-> Produce(agg.name, 1), calls |-> IF call = 1 THEN 1 ELSE 0]

\* agg if not callable(agg) else agg(): the value registered and the number
\* of producer calls made.
ResolveAgg(agg, call) ==
    IF ~agg.callable
    THEN [value |-> ConcreteValue(agg.name), calls |-> 0]
    ELSE [value |-> Produce(agg.name, call), calls |-> 1]

\* AggsToRegister taking every aggregation when none of the requested names
\* is configured.
AggsToRegisterFallbackAll(all_aggs, selected) ==
    IF selected = {} \/ \A k \in 1..Len(all_aggs) : all_aggs[k].name \notin selected
    THEN all_aggs
    ELSE SelectSeq(all_aggs, LAMBDA a : a.name \in selected)

\* The definitions handed to _aggregations by default_facets_factory.
AggsToRegister(all_aggs, selected) ==
    IF selected = {} THEN all_aggs
    ELSE IF all_aggs # <<>>
    THEN SelectSeq(all_aggs, LAMBDA a : a.name \in selected)
    ELSE <<>>

\* ------------------------------------------------------ _create_filter_dsl
NoError == [field |-> "", message |-> ""]

\* One iteration of the loop of _create_filter_dsl over (name, filter_factory).
\* CreateFilterDslIter adding the echo entries before it calls the factory.
CreateFilterDslIterEchoFirst(uk, fs, name, factory, vals) ==
    IF vals = <<>>
    THEN [called |-> FALSE, ok |-> FALSE, raised |-> FALSE, filters |-> fs,
          urlkwargs |-> uk, error |-> NoError]
    ELSE LET r == FilterFactory(factory, vals)
             echoed == MultiDictAddAll(uk, name, vals)
         IN  IF r.ok
             THEN [called |-> TRUE, ok |-> TRUE, raised |-> FALSE,
                   filters |-> Append(fs, r.expr), urlkwargs |-> echoed,
                   error |-> NoError]
             ELSE [called |-> TRUE, ok |-> FALSE, raised |-> TRUE,
                   filters |-> fs, urlkwargs |-> echoed, error |-> r.error]

\* CreateFilterDslIter catching the factory's failure and going on.
CreateFilterDslIterCatches(uk, fs, name, factory, vals) ==
    IF vals = <<>>
    THEN [called |-> FALSE, ok |-> FALSE, raised |-> FALSE, filters |-> fs,
          urlkwargs |-> uk, error |-> NoError]
    ELSE LET r == FilterFactory(factory, vals)
         IN  IF r.ok
             THEN [called |-> TRUE, ok |-> TRUE, raised |-> FALSE,
                   filters |-> Append(fs, r.expr),
                   urlkwargs |-> MultiDictAddAll(uk, name, vals),
                   error |-> NoError]
             ELSE [called |-> TRUE, ok |-> FALSE, raised |-> FALSE,
                   filters |-> fs, urlkwargs |-> uk, error |-> NoError]

\* called: the factory was invoked; ok: it returned an expression; raised:
\* its failure left the loop as an exception.
CreateFilterDslIter(uk, fs, name, factory, vals) ==
    IF vals = <<>>
    THEN [called |-> FALSE, ok |-> FALSE, raised |-> FALSE, filters |-> fs,
          urlkwargs |-> uk, error |-> NoError]
    ELSE LET r == FilterFactory(factory, vals)
         IN  IF r.ok
             THEN [called |-> TRUE, ok |-> TRUE, raised |-> FALSE,
                   filters |-> Append(fs, r.expr),
                   urlkwargs |-> MultiDictAddAll(uk, name, vals),
                   error |-> NoError]
             ELSE [called |-> TRUE, ok |-> FALSE, raised |-> TRUE,
                   filters |-> fs, urlkwargs |-> uk, error |-> r.error]

\* ApplyFilter whose result is not bound back to search.
ApplyFilterDropped(s, phase, filter_) == s

\* ApplyFilter calling filter() in _post_filter too.
ApplyFilterAlwaysQuery(s, phase, filter_) ==
    Append(s, [op |-> "filter", expr |-> filter_])

\* search.filter(filter_) in _query_filter, search.post_filter(filter_) in
\* _post_filter.
ApplyFilter(s, phase, filter_) ==
    Append(s, [op |-> IF phase = "query" THEN "filter" ELSE "post_filter",
               expr |-> filter_])

\* search.aggs[name] = value
SetAggregation(s, name, value) ==
    Append(s, [op |-> "agg", name |-> name, value |-> value])

\* ------------------------------------------------------------------ inputs
X == <<"x">>
R == <<"1", "-", "-", "2">>
D == <<"+", "1", "d">>

FieldOf(name) == IF name = "t" THEN "type" ELSE "year"

TermsOn(name) ==
    [name |-> name,
     factory |-> [kind |-> "terms", field |-> FieldOf(name),
                  start_date_math |-> None, end_date_math |-> None,
                  kwargs |-> EmptyDict]]

RangeOn(name) ==
    [name |-> name,
     factory |-> [kind |-> "range", field |-> FieldOf(name),
                  start_date_math |-> None, end_date_math |-> None,
                  kwargs |-> EmptyDict]]

ParamNames == {"t", "y"}
FilterDefs == {TermsOn("t"), RangeOn("t"), RangeOn("y")}

\* A mapping of the configuration: its keys are distinct.
DistinctNames(ds) ==
    \A j, k \in 1..Len(ds) : j # k => ds[j].name # ds[k].name

FilterMappings ==
    {ds \in {<<>>} \cup {<<d>> : d \in FilterDefs}
                   \cup {<<d, e>> : d \in FilterDefs, e \in FilterDefs} :
        DistinctNames(ds)}

AggDefs == {[name |-> <<"a">>, callable |-> FALSE],
            [name |-> <<"b">>, callable |-> TRUE]}
AggNames == {a.name : a \in AggDefs}

AggMappings ==
    {ds \in {<<>>} \cup {<<d>> : d \in AggDefs}
                   \cup {<<d, e>> : d \in AggDefs, e \in AggDefs} :
        DistinctNames(ds)}

Indices == {"records", "other"}

\* RECORDS_REST_FACETS: only the index "records" is configured.
Configs ==
    {("records" :> [aggs |-> ag, filters |-> qf, post_filters |-> pf]) :
        ag \in AggMappings, qf \in FilterMappings, pf \in FilterMappings}

ValueLists == {<<>>, <<X>>, <<R>>, <<X, R>>}
FacetsArgs ==
    {<<>>, << <<"b">> >>, << <<"z">> >>, << <<"a", ",", "z">>, <<"b">> >>}

\* ------------------------------------------------------------------- state
VARIABLES
    config,           \* current_app.config["RECORDS_REST_FACETS"]
    callNo,           \* orchestrator calls made so far
    pc,               \* where the current call stands
    index,            \* the call's index argument
    req,              \* the request: values (name -> list), facets (list)
    search,           \* the operations applied to the search the call received
    urlkwargs,        \* the MultiDict the call accumulates
    selected_facets,  \* the flattened facets selector
    i,                \* position of the running loop
    filters,          \* the list _create_filter_dsl is building / has returned
    invoked,          \* the filter factories called in this call, in order
    producerCalls,    \* calls of each lazy producer in this call
    error,            \* the validation error the call raised
    rf_call,          \* a direct call of a range factory: its arguments
    rf_result         \* and what it returned or raised

vars == <<config, callNo, pc, index, req, search, urlkwargs, selected_facets,
          i, filters, invoked, producerCalls, error, rf_call, rf_result>>

NoCall == [field |-> "", start_date_math |-> None, end_date_math |-> None,
           kwargs |-> EmptyDict, values |-> <<>>]
NoResult == [pending |-> TRUE]
NoRequest == [values |-> [n \in ParamNames |-> <<>>], facets |-> <<>>]
NoProducerCalls == [n \in AggNames |-> 0]

Init ==
    /\ config \in Configs
    /\ callNo = 0
    /\ pc = "idle"
    /\ index = "records"
    /\ req = NoRequest
    /\ search = <<>>
    /\ urlkwargs = MultiDictNew
    /\ selected_facets = {}
    /\ i = 1
    /\ filters = <<>>
    /\ invoked = <<>>
    /\ producerCalls = NoProducerCalls
    /\ error = NoError
    /\ rf_call = NoCall
    /\ rf_result = NoResult

\* LookupFacets falling back on the first configured index.
LookupFacetsWithDefault(cfg, idx) ==
    [found |-> TRUE,
     facets |-> IF idx \in DOMAIN cfg THEN cfg[idx]
                ELSE cfg[CHOOSE x \in DOMAIN cfg : TRUE]]

\* current_app.config["RECORDS_REST_FACETS"].get(index): found is FALSE for
\* None.
LookupFacets(cfg, idx) ==
    IF idx \in DOMAIN cfg
    THEN [found |-> TRUE, facets |-> cfg[idx]]
    ELSE [found |-> FALSE,
          facets |-> [aggs |-> <<>>, filters |-> <<>>, post_filters |-> <<>>]]

\* The facet configuration of the call's index.
Facets == LookupFacets(config, index).facets

DefinitionsOf(phase) ==
    IF phase = "query" THEN Facets.filters ELSE Facets.post_filters

\* default_facets_factory(search, index) is called: urlkwargs = MultiDict(),
\* the configuration lookup, and the facets selector.
Enter(idx, vals, fac) ==
    /\ pc \in {"idle", "returned", "raised"}
    /\ callNo < MaxCalls
    /\ callNo' = callNo + 1
    /\ index' = idx
    /\ req' = [values |-> vals, facets |-> fac]
    /\ search' = <<>>
    /\ urlkwargs' = MultiDictNew
    /\ i' = 1
    /\ filters' = <<>>
    /\ invoked' = <<>>
    /\ producerCalls' = NoProducerCalls
    /\ error' = NoError
    /\ IF LookupFacets(config, idx).found
       THEN /\ selected_facets' = MakeCommaListAList(fac)
            /\ pc' = "aggs"
       ELSE /\ selected_facets' = {}
            /\ pc' = "returned"
    /\ UNCHANGED <<config, rf_call, rf_result>>

\* _aggregations: one iteration of the loop over the definitions.
AggregationsIter ==
    /\ pc = "aggs"
    /\ LET definitions == AggsToRegister(Facets.aggs, selected_facets)
       IN  /\ i <= Len(definitions)
           /\ LET agg == definitions[i]
                  r == ResolveAgg(agg, callNo)
              IN  /\ search' = SetAggregation(search, agg.name, r.value)
                  /\ producerCalls' =
                        [producerCalls EXCEPT ![agg.name] = @ + r.calls]
    /\ i' = i + 1
    /\ UNCHANGED <<config, callNo, pc, index, req, urlkwargs, selected_facets,
                   filters, invoked, error, rf_call, rf_result>>

\* _aggregations returns; _query_filter starts.
AggregationsDone ==
    /\ pc = "aggs"
    /\ i > Len(AggsToRegister(Facets.aggs, selected_facets))
    /\ pc' = "query_collect"
    /\ i' = 1
    /\ filters' = <<>>
    /\ UNCHANGED <<config, callNo, index, req, search, urlkwargs,
                   selected_facets, invoked, producerCalls, error, rf_call,
                   rf_result>>

\* _create_filter_dsl: one iteration over the definitions of `phase`.
CollectIter(phase) ==
    /\ pc = phase \o "_collect"
    /\ i <= Len(DefinitionsOf(phase))
    /\ LET d == DefinitionsOf(phase)[i]
           vals == Getlist(req.values, d.name)
           r == CreateFilterDslIter(urlkwargs, filters, d.name, d.factory, vals)
       IN  /\ filters' = r.filters
           /\ urlkwargs' = r.urlkwargs
           /\ error' = IF r.raised THEN r.error ELSE error
           /\ invoked' = IF r.called
                         THEN Append(invoked, [phase |-> phase, name |-> d.name,
                                               pos |-> i, ok |-> r.ok])
                         ELSE invoked
           /\ IF r.raised
              THEN pc' = "raised" /\ i' = i
              ELSE pc' = pc /\ i' = i + 1
    /\ UNCHANGED <<config, callNo, index, req, search, selected_facets,
                   producerCalls, rf_call, rf_result>>

\* _create_filter_dsl returns (filters, urlkwargs).
CollectDone(phase) ==
    /\ pc = phase \o "_collect"
    /\ i > Len(DefinitionsOf(phase))
    /\ pc' = phase \o "_apply"
    /\ i' = 1
    /\ UNCHANGED <<config, callNo, index, req, search, urlkwargs,
                   selected_facets, filters, invoked, producerCalls, error,
                   rf_call, rf_result>>

\* for filter_ in filters: one iteration.
ApplyIter(phase) ==
    /\ pc = phase \o "_apply"
    /\ i <= Len(filters)
    /\ search' = ApplyFilter(search, phase, filters[i])
    /\ i' = i + 1
    /\ UNCHANGED <<config, callNo, pc, index, req, urlkwargs, selected_facets,
                   filters, invoked, producerCalls, error, rf_call, rf_result>>

\* _query_filter returns and _post_filter starts; _post_filter returns and
\* default_facets_factory returns (search, urlkwargs).
ApplyDone(phase) ==
    /\ pc = phase \o "_apply"
    /\ i > Len(filters)
    /\ pc' = IF phase = "query" THEN "post_collect" ELSE "returned"
    /\ i' = 1
    /\ filters' = <<>>
    /\ UNCHANGED <<config, callNo, index, req, search, urlkwargs,
                   selected_facets, invoked, producerCalls, error, rf_call,
                   rf_result>>

Phases == {"query", "post"}

Requests ==
    {[values |-> vs, facets |-> fac] :
        vs \in [ParamNames -> ValueLists], fac \in FacetsArgs}

Next ==
    \/ \E idx \in Indices, r \in Requests : Enter(idx, r.values, r.facets)
    \/ AggregationsIter
    \/ AggregationsDone
    \/ \E phase \in Phases : CollectIter(phase)
    \/ \E phase \in Phases : CollectDone(phase)
    \/ \E phase \in Phases : ApplyIter(phase)
    \/ \E phase \in Phases : ApplyDone(phase)

Spec == Init /\ [][Next]_vars

\* ------------------------------------------- the range factory called alone
Chars == {"a", "-", ">", "<"}

\* Every string over Chars of length at most n.
StringsUpTo(n) == UNION {[1..k -> Chars] : k \in 0..n}

RangeValueLists ==
    {<<>>} \cup {<<s>> : s \in StringsUpTo(MaxStrLen)}
           \cup {<<s, t>> : s \in {<<>>, <<"a">>, R}, t \in {<<"a">>, R}}
           \cup {<< <<"a", "-", "-", "a", "-", "-", "a">> >>,
                 << <<">", "a", "-", "-", "<", "a">> >>}

RangeKwargs == {EmptyDict, ("gte" :> <<"0">>)}

RangeCalls ==
    {[field |-> "year", start_date_math |-> sdm, end_date_math |-> edm,
      kwargs |-> kw, values |-> vs] :
        sdm \in {None, D}, edm \in {None, D}, kw \in RangeKwargs,
        vs \in RangeValueLists}

InitRange ==
    /\ config = ("records" :> [aggs |-> <<>>, filters |-> <<>>,
                               post_filters |-> <<>>])
    /\ callNo = 0
    /\ pc = "idle"
    /\ index = "records"
    /\ req = NoRequest
    /\ search = <<>>
    /\ urlkwargs = MultiDictNew
    /\ selected_facets = {}
    /\ i = 1
    /\ filters = <<>>
    /\ invoked = <<>>
    /\ producerCalls = NoProducerCalls
    /\ error = NoError
    /\ rf_call \in RangeCalls
    /\ rf_result = NoResult

\* range_filter(field, start_date_math, end_date_math, **kwargs)(values)
RangeCall ==
    /\ rf_result = NoResult
    /\ rf_call # NoCall
    /\ rf_result' = RangeInner(rf_call.field, rf_call.start_date_math,
                               rf_call.end_date_math, rf_call.kwargs,
                               rf_call.values)
    /\ UNCHANGED <<config, callNo, pc, index, req, search, urlkwargs,
                   selected_facets, i, filters, invoked, producerCalls, error,
                   rf_call>>

NextRange == RangeCall

SpecRange == InitRange /\ [][NextRange]_vars

\* =================================================================== claims
\* Positions at which the two characters "--" stand in s, overlapping ones
\* included.
OccurrencePositions(s) ==
    {k \in 1..(Len(s) - 1) : s[k] = "-" /\ s[k + 1] = "-"}

\* The dashes standing directly before position k.
DashesBefore(s, k) ==
    Cardinality({j \in 1..(k - 1) : \A m \in j..(k - 1) : s[m] = "-"})

\* The occurrences a left-to-right scan finds when each one found uses up
\* its two characters: in a run of dashes, every second position.
ScanPositions(s) ==
    {k \in OccurrencePositions(s) : DashesBefore(s, k) % 2 = 0}

RangeReturned == rf_result # NoResult

RangeErrorIs(field) ==
    rf_result = [ok |-> FALSE,
                 error |-> [field |-> field, message |-> "Invalid range format."]]

\* C2 as stated: the factory fails, with the field-scoped error "Invalid range
\* format.", exactly when the value list has not exactly one element, or the
\* element does not hold exactly one occurrence of "--", or it is "--" itself;
\* otherwise it returns a range expression.
C2_FailsIffNotExactlyOneOccurrence ==
    RangeReturned =>
        LET v == rf_call.values
            bad == \/ Len(v) # 1
                   \/ Cardinality(OccurrencePositions(v[1])) # 1
                   \/ v[1] = Sep
        IN  /\ bad <=> ~rf_result.ok
            /\ ~rf_result.ok => RangeErrorIs(rf_call.field)
            /\ rf_result.ok => rf_result.expr.type = "range"

\* C2 amended: the same, the occurrences of "--" being counted as a scan from
\* the left counts them, none overlapping another (three dashes in a row hold
\* one, four hold two).
C2_FailsIffNotExactlyOneScannedOccurrence ==
    RangeReturned =>
        LET v == rf_call.values
            bad == \/ Len(v) # 1
                   \/ Cardinality(ScanPositions(v[1])) # 1
                   \/ v[1] = Sep
        IN  /\ bad <=> ~rf_result.ok
            /\ ~rf_result.ok => RangeErrorIs(rf_call.field)
            /\ rf_result.ok =>
                  /\ rf_result.expr.type = "range"
                  /\ rf_result.expr.field = rf_call.field

\* C2 witness: a single value holding three dashes in a row was accepted.
C2_WitnessTripleDashAccepted ==
    /\ RangeReturned
    /\ rf_result.ok
    /\ rf_call.values = << <<"a", "-", "-", "-", "a">> >>

\* The bound the claim gives the start side.
LowKey(start) == IF start[1] = ">" THEN "gt" ELSE "gte"
\* The bound the claim gives the end side.
HighKey(end) == IF end[1] = "<" THEN "lt" ELSE "lte"

Anchored(token, anchor) ==
    IF anchor # None THEN token \o <<"|", "|">> \o anchor ELSE token

LowValue(start, anchor) ==
    Anchored(IF start[1] = ">" THEN Tail(start) ELSE start, anchor)

HighValue(end, anchor) ==
    Anchored(IF end[1] = "<" THEN Tail(end) ELSE end, anchor)

\* The bound keys the claim derives from the two tokens.
TokenKeys(start, end) ==
    (IF start # <<>> THEN {LowKey(start)} ELSE {})
        \cup (IF end # <<>> THEN {HighKey(end)} ELSE {})

\* The body of the range expression has the bounds of the two tokens.
HasTokenBounds(body, start, end, sdm, edm) ==
    /\ TokenKeys(start, end) \subseteq DOMAIN body
    /\ start # <<>> => body[LowKey(start)] = LowValue(start, sdm)
    /\ end # <<>> => body[HighKey(end)] = HighValue(end, edm)

\* The ways to read v as <start>--<end>.
Decompositions(v) ==
    {<<SubSeq(v, 1, k - 1), SubSeq(v, k + 2, Len(v))>> :
        k \in OccurrencePositions(v)}

\* C3 as stated: for an accepted value <start>--<end> the range expression
\* holds, for each side, no bound key when the token is empty and otherwise
\* gt/gte (lt/lte) with the marker stripped and the date anchor appended
\* after "||"; it holds nothing else.
C3_BoundsAreExactlyTheTokens ==
    (RangeReturned /\ rf_result.ok) =>
        \A d \in Decompositions(rf_call.values[1]) :
            /\ HasTokenBounds(rf_result.expr.body, d[1], d[2],
                              rf_call.start_date_math, rf_call.end_date_math)
            /\ DOMAIN rf_result.expr.body = TokenKeys(d[1], d[2])

\* C3 amended: start and end are the text before and after the leftmost
\* "--"; each non-empty token gives its bound as stated; every other key of
\* the expression is an extra option of the factory, with the extra option's
\* value (so a side whose token is empty has a bound key only when the extra
\* options supply one).
C3_BoundsOfLeftmostSplitOverExtraOptions ==
    (RangeReturned /\ rf_result.ok) =>
        LET v == rf_call.values[1]
            k == CHOOSE p \in OccurrencePositions(v) :
                    \A q \in OccurrencePositions(v) : p <= q
            start == SubSeq(v, 1, k - 1)
            end == SubSeq(v, k + 2, Len(v))
            body == rf_result.expr.body
        IN  /\ HasTokenBounds(body, start, end, rf_call.start_date_math,
                              rf_call.end_date_math)
            /\ DOMAIN body = TokenKeys(start, end) \cup DOMAIN rf_call.kwargs
            /\ \A key \in DOMAIN body \ TokenKeys(start, end) :
                  body[key] = rf_call.kwargs[key]

\* C3 witness: ">a--<a" with both date anchors gave strict bounds on both
\* sides.
C3_WitnessStrictBothSides ==
    /\ RangeReturned
    /\ rf_result.ok
    /\ rf_call.values = << <<">", "a", "-", "-", "<", "a">> >>
    /\ rf_call.start_date_math = D
    /\ rf_call.end_date_math = D
    /\ DOMAIN rf_result.expr.body = {"gt", "lt"}

\* ------------------------------------------------- orchestrator: vocabulary
IsConfigured == index \in DOMAIN config
InCall == callNo > 0

ConfiguredDefs(phase) ==
    IF ~IsConfigured THEN <<>>
    ELSE IF phase = "query" THEN config[index].filters
    ELSE config[index].post_filters

ConfiguredAggs == IF IsConfigured THEN config[index].aggs ELSE <<>>

HasValues(d) == req.values[d.name] # <<>>

\* The definitions whose name has values in the request, in configuration
\* order.
PresentDefs(phase) == SelectSeq(ConfiguredDefs(phase), HasValues)

\* Pipeline order: query filters, then post-filters.
Pipeline == PresentDefs("query") \o PresentDefs("post")

RECURSIVE Flatten(_)
\* items(multi=True) of a MultiDict: its (key, value) entries in order.
Flatten(md) ==
    IF md = <<>> THEN <<>>
    ELSE [k \in 1..Len(md[1].vals) |-> <<md[1].key, md[1].vals[k]>>]
            \o Flatten(Tail(md))

Echo == Flatten(urlkwargs)

EntriesOfDef(d) ==
    [k \in 1..Len(req.values[d.name]) |-> <<d.name, req.values[d.name][k]>>]

RECURSIVE EntriesOfDefs(_)
EntriesOfDefs(ds) ==
    IF ds = <<>> THEN <<>> ELSE EntriesOfDef(ds[1]) \o EntriesOfDefs(Tail(ds))

\* One entry per request value of each present definition, in pipeline order.
ExpectedEcho == EntriesOfDefs(Pipeline)

EchoUnder(n) == SelectSeq(Echo, LAMBDA e : e[1] = n)

OpsOf(kind) == SelectSeq(search, LAMBDA o : o.op = kind)

Rank(o) == IF o.op = "agg" THEN 0 ELSE IF o.op = "filter" THEN 1 ELSE 2

OkInvocationsOf(n) == {k \in 1..Len(invoked) : invoked[k].name = n /\ invoked[k].ok}

\* The last factory invocation: the failing one when the call raised.
Failing == invoked[Len(invoked)]

\* The present definitions of `phase` standing before position pos.
PresentBefore(phase, pos) ==
    {k \in 1..Len(ConfiguredDefs(phase)) :
        k < pos /\ HasValues(ConfiguredDefs(phase)[k])}

\* ------------------------------------------------------------------- C1
EchoEntriesAreJustified ==
    \A e \in 1..Len(Echo) :
        LET n == Echo[e][1]
            v == Echo[e][2]
        IN  /\ \E phase \in Phases : \E k \in 1..Len(ConfiguredDefs(phase)) :
                  ConfiguredDefs(phase)[k].name = n
            /\ \E j \in 1..Len(req.values[n]) : req.values[n][j] = v
            /\ OkInvocationsOf(n) # {}

NoEchoWithoutValues ==
    \A n \in ParamNames : req.values[n] = <<>> => EchoUnder(n) = <<>>

\* C1 as stated: at every point of a call, an echo entry (name, value) exists
\* only if name is a configured filter, value is one of the request's values
\* under name and the factory for name was invoked and returned an
\* expression; a filter whose factory failed, and a parameter without values,
\* has no echo entry.
C1_NoEchoForFailedOrAbsentFilter ==
    /\ EchoEntriesAreJustified
    /\ NoEchoWithoutValues
    /\ \A k \in 1..Len(invoked) :
          ~invoked[k].ok => EchoUnder(invoked[k].name) = <<>>

\* C1 amended: the same, except that a failed factory adds no entry instead
\* of its name having none: under each name the echo holds one entry per
\* request value for every definition of that name whose factory returned,
\* so the name of a failed post-filter keeps the entries of a query filter of
\* the same name that succeeded before it.
C1_EchoOnlyFromReturnedFactories ==
    /\ EchoEntriesAreJustified
    /\ NoEchoWithoutValues
    /\ \A n \in ParamNames :
          Len(EchoUnder(n)) = Len(req.values[n]) * Cardinality(OkInvocationsOf(n))

\* C1 witness: a factory failed after another filter had been echoed.
C1_WitnessFailureAfterEcho ==
    /\ pc = "raised"
    /\ Len(invoked) >= 2
    /\ Echo # <<>>
    /\ EchoUnder(Failing.name) = <<>>

\* ------------------------------------------------------------------- C4
AggNamesRegistered == [k \in 1..Len(OpsOf("agg")) |-> OpsOf("agg")[k].name]

PositionInConfig(n) ==
    CHOOSE k \in 1..Len(ConfiguredAggs) : ConfiguredAggs[k].name = n

AggregationsOver == InCall /\ IsConfigured /\ pc \notin {"idle", "aggs"}

\* C4: in a call for a configured index the aggregations registered are all
\* the configured ones when the requested subset is empty, and otherwise
\* exactly the configured ones whose name is requested; in configuration
\* order, each once; unknown requested names are ignored.
C4_RegisteredAggregationsAreTheSelection ==
    AggregationsOver =>
        LET reg == AggNamesRegistered
        IN  /\ {reg[k] : k \in 1..Len(reg)} =
                  {ConfiguredAggs[k].name : k \in
                      {j \in 1..Len(ConfiguredAggs) :
                          \/ selected_facets = {}
                          \/ ConfiguredAggs[j].name \in selected_facets}}
            /\ \A j, k \in 1..Len(reg) :
                  j < k => PositionInConfig(reg[j]) < PositionInConfig(reg[k])
            /\ pc # "raised" => error = NoError

\* C4 witness: only unknown names were requested and nothing was registered.
C4_WitnessUnknownOnly ==
    /\ AggregationsOver
    /\ selected_facets = {<<"z">>}
    /\ Len(ConfiguredAggs) = 2
    /\ OpsOf("agg") = <<>>
    /\ pc = "returned"

\* ------------------------------------------------------------------- C5
\* C5 as stated: the echo a call returns is exactly one entry per request
\* value of each present query-filter definition, then of each present
\* post-filter definition, in that order.
C5_ReturnedEchoIsPipelineSequence ==
    pc = "returned" => Echo = ExpectedEcho

RECURSIVE FirstOccurrences(_, _)
\* The names of a sequence of entries, each at its first occurrence.
FirstOccurrences(es, seen) ==
    IF es = <<>> THEN <<>>
    ELSE IF es[1][1] \in seen THEN FirstOccurrences(Tail(es), seen)
    ELSE <<es[1][1]>> \o FirstOccurrences(Tail(es), seen \cup {es[1][1]})

NoNamePresentTwice ==
    \A j \in 1..Len(PresentDefs("query")), k \in 1..Len(PresentDefs("post")) :
        PresentDefs("query")[j].name # PresentDefs("post")[k].name

\* C5 amended: the returned echo holds the claimed entries grouped by name:
\* the names stand in the order of their first present definition in pipeline
\* order, and under each name stand the entries of its query filter, then
\* those of its post-filter, each in request order.  It is the claimed
\* sequence whenever no name with values is configured both as a query filter
\* and as a post-filter.
C5_ReturnedEchoIsPipelineSequenceGroupedByName ==
    pc = "returned" =>
        /\ [k \in 1..Len(urlkwargs) |-> urlkwargs[k].key] =
              FirstOccurrences(ExpectedEcho, {})
        /\ \A n \in ParamNames :
              EchoUnder(n) = SelectSeq(ExpectedEcho, LAMBDA e : e[1] = n)
        /\ NoNamePresentTwice => Echo = ExpectedEcho

\* C5 witness: a call returned two values of one name in request order,
\* followed by the entry of a post-filter of another name.
C5_WitnessTwoValuesInOrder ==
    /\ pc = "returned"
    /\ NoNamePresentTwice
    /\ Echo = << <<"t", X>>, <<"t", R>>, <<"y", R>> >>
    /\ Len(PresentDefs("post")) = 1

\* ------------------------------------------------------------------- C6
\* C6: for an index without facet configuration the call returns at once:
\* no operation applied to the query, an empty echo, no filter factory and
\* no lazy producer called, whatever the request holds.
C6_UnconfiguredIndexLeavesQueryAlone ==
    (InCall /\ ~IsConfigured) =>
        /\ pc = "returned"
        /\ search = <<>>
        /\ urlkwargs = MultiDictNew
        /\ invoked = <<>>
        /\ producerCalls = NoProducerCalls
        /\ error = NoError

\* C6 witness: the call returned for the unconfigured index although the
\* request held a malformed range value and a facets selector, and the
\* configured index has a range filter and a lazy aggregation.
C6_WitnessUnconfiguredWithBadRange ==
    /\ InCall /\ ~IsConfigured /\ pc = "returned"
    /\ req.values["y"] = <<X>>
    /\ req.facets # <<>>
    /\ config["records"].filters = <<RangeOn("y")>>
    /\ \E k \in 1..Len(config["records"].aggs) : config["records"].aggs[k].callable

\* ------------------------------------------------------------------- C7
\* C7 as stated: when a factory fails, every present definition standing
\* before the failing one in pipeline order has been applied to the query by
\* its filter() or postFilter() call.
C7_EarlierFiltersAppliedAtFailure ==
    pc = "raised" =>
        IF Failing.phase = "query"
        THEN /\ Len(OpsOf("filter")) = Cardinality(PresentBefore("query", Failing.pos))
             /\ OpsOf("post_filter") = <<>>
        ELSE /\ Len(OpsOf("filter")) = Len(PresentDefs("query"))
             /\ Len(OpsOf("post_filter")) =
                   Cardinality(PresentBefore("post", Failing.pos))

\* C7 amended: when a factory fails, the filters applied to the query are
\* those of the collections processed before the failing one's: every present
\* query filter, by filter(), when a post-filter fails, and none when a query
\* filter fails.  No definition of the failing one's own collection has been
\* applied: the expressions of those before it are built and held back.
C7_EarlierCollectionsAppliedAtFailure ==
    pc = "raised" =>
        /\ OpsOf("post_filter") = <<>>
        /\ Len(filters) = Cardinality(PresentBefore(Failing.phase, Failing.pos))
        /\ IF Failing.phase = "query"
           THEN OpsOf("filter") = <<>>
           ELSE /\ Len(OpsOf("filter")) = Len(PresentDefs("query"))
                /\ \A k \in 1..Len(OpsOf("filter")) :
                      OpsOf("filter")[k].expr.field =
                          PresentDefs("query")[k].factory.field

\* C7 witness: a post-filter failed after a query filter had been applied and
\* an earlier post-filter's expression had been built.
C7_WitnessPostFilterFailsSecond ==
    /\ pc = "raised"
    /\ Failing.phase = "post"
    /\ Failing.pos = 2
    /\ Len(filters) = 1
    /\ Len(OpsOf("filter")) >= 1

\* ------------------------------------------------------------------- C8
\* C8: a factory failure ends the call at once: the failing invocation is the
\* last one, the call stands raised with the factory's error and never
\* returns, no filter() or postFilter() call follows (none at all of the
\* failing collection, and nothing of the post-filters when a query filter
\* failed), and the echo holds only what the factories that returned added.
C8_FailureStopsThePipeline ==
    /\ \A k \in 1..Len(invoked) :
          ~invoked[k].ok =>
              /\ k = Len(invoked)
              /\ pc = "raised"
              /\ error = [field |-> ConfiguredDefs(invoked[k].phase)[invoked[k].pos].factory.field,
                          message |-> "Invalid range format."]
              /\ i = invoked[k].pos
              /\ OpsOf("post_filter") = <<>>
              /\ invoked[k].phase = "query" =>
                    /\ OpsOf("filter") = <<>>
                    /\ \A j \in 1..Len(invoked) : invoked[j].phase = "query"
              /\ Len(Echo) = Len(EntriesOfDefs(
                    [j \in 1..(k - 1) |->
                        ConfiguredDefs(invoked[j].phase)[invoked[j].pos]]))
    /\ pc = "raised" => (invoked # <<>> /\ ~Failing.ok)
    /\ pc = "returned" => error = NoError

\* C8 witness: a query filter failed while a post-filter with values in the
\* request was configured.
C8_WitnessQueryFailsBeforePost ==
    /\ pc = "raised"
    /\ Failing.phase = "query"
    /\ PresentDefs("post") # <<>>
    /\ Failing.pos < Len(ConfiguredDefs("query"))

\* ------------------------------------------------------------------- C9
\* C9: in a call that returns, the operations on the query are the
\* aggregation registrations, then one filter() per present query-filter
\* definition, then one postFilter() per present post-filter definition, in
\* configuration order; a definition without values in the request is never
\* invoked and produces no call.
C9_OperationsInPipelineOrder ==
    /\ \A k \in 1..Len(invoked) : req.values[invoked[k].name] # <<>>
    /\ pc = "returned" =>
          /\ \A j, k \in 1..Len(search) : j < k => Rank(search[j]) <= Rank(search[k])
          /\ Len(OpsOf("filter")) = Len(PresentDefs("query"))
          /\ Len(OpsOf("post_filter")) = Len(PresentDefs("post"))
          /\ \A k \in 1..Len(OpsOf("filter")) :
                /\ OpsOf("filter")[k].expr.field = PresentDefs("query")[k].factory.field
                /\ OpsOf("filter")[k].expr.type = PresentDefs("query")[k].factory.kind
          /\ \A k \in 1..Len(OpsOf("post_filter")) :
                /\ OpsOf("post_filter")[k].expr.field = PresentDefs("post")[k].factory.field
                /\ OpsOf("post_filter")[k].expr.type = PresentDefs("post")[k].factory.kind
          /\ Len(invoked) = Len(Pipeline)
          /\ \A k \in 1..Len(invoked) :
                /\ invoked[k].name = Pipeline[k].name
                /\ invoked[k].phase =
                      (IF k <= Len(PresentDefs("query")) THEN "query" ELSE "post")

\* C9 witness: a call returned after registering an aggregation, one filter()
\* and one postFilter(), a configured definition having no values.
C9_WitnessAllThreeKinds ==
    /\ pc = "returned"
    /\ OpsOf("agg") # <<>>
    /\ Len(OpsOf("filter")) = 1
    /\ Len(OpsOf("post_filter")) = 1
    /\ Len(ConfiguredDefs("query")) = 2

\* ------------------------------------------------------------------ C10
SelectedForRegistration(n) ==
    \E k \in 1..Len(ConfiguredAggs) :
        /\ ConfiguredAggs[k].name = n
        /\ selected_facets = {} \/ n \in selected_facets

IsLazy(n) ==
    \E k \in 1..Len(ConfiguredAggs) :
        ConfiguredAggs[k].name = n /\ ConfiguredAggs[k].callable

\* C10: in every call of a sequence of calls on one configuration, a lazy
\* aggregation is called exactly once when its entry is selected for
\* registration and never otherwise, and the value registered is the one it
\* returned in this very call.
C10_LazyAggregationCalledOncePerCall ==
    /\ \A n \in AggNames : producerCalls[n] <= 1
    /\ \A k \in 1..Len(search) :
          (search[k].op = "agg" /\ IsLazy(search[k].name)) =>
              /\ search[k].value = Produce(search[k].name, callNo)
              /\ producerCalls[search[k].name] = 1
    /\ (InCall /\ pc \notin {"idle", "aggs"}) =>
          \A n \in AggNames :
              producerCalls[n] =
                  IF IsLazy(n) /\ SelectedForRegistration(n) THEN 1 ELSE 0

\* C10 witness: in the second call on the configuration the lazy aggregation
\* was selected and called once.
C10_WitnessSecondCall ==
    /\ callNo = 2
    /\ pc = "returned"
    /\ producerCalls[<<"b">>] = 1
    /\ selected_facets # {}
====
